---------------------------- MODULE Spec2Model ----------------------------
(***************************************************************************)
(* Model of gradient_descent_basics/gradient_descent.py: the class         *)
(* GradientDescent (constructor, _get_gradient, optimize).                 *)
(*                                                                         *)
(* Numbers.  A Python float is modelled as a fixed-point integer counting  *)
(* units of 1/Scale; every arithmetic result is rounded to the nearest     *)
(* unit, as float arithmetic rounds to the nearest representable value.    *)
(* A value is a record [arr, v]: arr says whether it is a numpy.ndarray    *)
(* (TRUE) or a bare Python scalar (FALSE), v is the sequence of its        *)
(* elements (one element for a scalar).                                    *)
(***************************************************************************)
EXTENDS Integers, Sequences, FiniteSets

(***************************************************************************)
(* Bounds of the model.                                                    *)
(***************************************************************************)
Scale == 10000000         \* units per 1.0 (resolution of the fixed point)
MaxDim == 2               \* largest length of the shape argument (n,)

None == "None"

Abs(n) == IF n < 0 THEN -n ELSE n

\* a / b rounded to the nearest integer, halves away from zero (b > 0)
RoundDiv(a, b) == IF a >= 0 THEN (2 * a + b) \div (2 * b)
                            ELSE -((2 * (-a) + b) \div (2 * b))

\* <<q, r>> with a * b = q * s + r and 0 <= r < s, for a, b >= 0 and s > 0,
\* computed by doubling so that no intermediate product leaves 32 bits
\* (h ranges over a one-element set, so that the half is computed once)
RECURSIVE MulDivMod(_, _, _)
MulDivMod(a, b, s) ==
    IF b = 0 THEN <<0, 0>>
    ELSE CHOOSE p \in {<<2 * h[1] + (b % 2) * (a \div s) + ((2 * h[2] + (b % 2) * (a % s)) \div s),
                          (2 * h[2] + (b % 2) * (a % s)) % s>> :
                        h \in {MulDivMod(a, b \div 2, s)}} : TRUE

\* the fixed-point product a * b (both in units), rounded to the nearest unit
FixMul(a, b) ==
    LET p == MulDivMod(Abs(a), Abs(b), Scale)
        m == p[1] + (IF 2 * p[2] >= Scale THEN 1 ELSE 0)
    IN  IF (a < 0) = (b < 0) THEN m ELSE -m

Scalar(n) == [arr |-> FALSE, v |-> <<n>>]
Array(s)  == [arr |-> TRUE, v |-> s]

\* element k of the elements s, a single element standing for every place
\* (numpy broadcasting)
At(s, k) == IF Len(s) = 1 THEN s[1] ELSE s[k]

\* a - b: of equal lengths, or a scalar with an array; the result is an array
\* if either side is
Sub(a, b) ==
    [arr |-> a.arr \/ b.arr,
     v   |-> [k \in 1..(IF Len(a.v) >= Len(b.v) THEN Len(a.v) ELSE Len(b.v)) |->
                At(a.v, k) - At(b.v, k)]]

\* a + c for a Python float c
AddConst(a, c) == [arr |-> a.arr, v |-> [k \in 1..Len(a.v) |-> a.v[k] + c]]

(***************************************************************************)
(* The callables handed to the constructor.  "sq" is lambda x: x**2 and    *)
(* "quad3" is lambda x: (x - 3)**2; "d_sq" is lambda x: 2*x and "d_quad3"  *)
(* is lambda x: 2*(x - 3).  All act element by element on an array.        *)
(***************************************************************************)
Funcs == {"sq", "quad3"}
GradFuncs == {"d_sq", "d_quad3"}

CallFunc(f, a) ==
    [arr |-> a.arr,
     v   |-> [k \in 1..Len(a.v) |->
                IF f = "sq" THEN FixMul(a.v[k], a.v[k])
                ELSE FixMul(a.v[k] - 3 * Scale, a.v[k] - 3 * Scale)]]

CallGradFunc(g, a) ==
    [arr |-> a.arr,
     v   |-> [k \in 1..Len(a.v) |->
                IF g = "d_sq" THEN 2 * a.v[k] ELSE 2 * (a.v[k] - 3 * Scale)]]


\* division of fixed-point a by fixed-point b > 0, rounded to the nearest unit
FixDiv(a, b) ==
    LET p == MulDivMod(Abs(a), Scale, b)
        m == p[1] + (IF 2 * p[2] >= b THEN 1 ELSE 0)
    IN  IF a < 0 THEN -m ELSE m

(***************************************************************************)
(* Inputs of the model: the arguments the caller passes.                   *)
(***************************************************************************)
Insts == {"a", "b"}                      \* names the caller binds optimizers to

Eps6 == Scale \div 1000000               \* 1e-6, the default eps
Eps4 == Scale \div 10000                 \* 1e-4
Lr(n, d) == [num |-> n, den |-> d]       \* the learning rate n / d

NoStart == [arr |-> FALSE, v |-> <<>>]       \* start=None: no start is passed
NoShape == 0                                 \* shape=None: no shape is passed

Starts == {NoStart, Scalar(0), Scalar(5 * Eps6), Scalar(10 * Scale),
           Scalar(-2 * Scale), Array(<<Scale, -2 * Scale>>)}
Shapes == {NoShape} \cup (1..MaxDim)     \* None, or the 1-d shape (n,)
Draws == {-Scale, Scale \div 4, 2 * Scale}   \* values numpy.random.randn yields
LRs == {Lr(1, 1000000), Lr(1, 10), Lr(1, 2), Lr(1, 1)}
MaxIters == {0, 1, 2, 3}
Epss == {Eps6, Eps4}

\* the inputs of the specification with the long iteration budget
LongStarts == {Scalar(0), Scalar(5 * Eps6), Scalar(10 * Scale), Scalar(-2 * Scale)}
LongLRs == {Lr(1, 1000000), Lr(1, 10), Lr(2, 5), Lr(1, 2), Lr(1, 1)}

\* the narrower inputs of the specification that runs several calls
FewStarts == {NoStart, Scalar(2 * Scale)}
FewDraws == {-Scale, 2 * Scale}
FewLRs == {Lr(1, 10), Lr(1, 2)}
FewMaxIters == {0, 2}

VARIABLES
    obj,        \* per name: the optimizer bound to it (func, grad_func) or why not
    pc,         \* "idle", "loop" (inside optimize's for loop) or "returned"
    self,       \* the optimizer the current call of optimize runs on
    lr, max_iter, eps,   \* arguments of the current call
    x,          \* local x of optimize
    history,    \* local history of optimize
    converged,  \* local converged of optimize
    i,          \* loop index: the iteration about to run
    out,        \* lines the current call has printed
    ret,        \* what the last completed call returned: <<x, history>>, or <<>>
    x0,         \* observer: the initial point of the current call
    nGrad,      \* observer: calls of _get_gradient made by the current call
    evals,      \* observer: evaluations of func / grad_func by the current call
    sawSmall,   \* observer: some iteration's step norm was below eps
    kept        \* observer: the calls and results the caller has kept (at most one)

vars == <<obj, pc, self, lr, max_iter, eps, x, history, converged, i, out,
          ret, x0, nGrad, evals, sawSmall, kept>>

callVars == <<pc, self, lr, max_iter, eps, x, history, converged, i, out,
              ret, x0, nGrad, sawSmall, kept>>

Unborn == [state |-> "unborn", argf |-> None, argg |-> None,
           func |-> "unset", grad_func |-> "unset"]

Init ==
    /\ obj = [k \in Insts |-> Unborn]
    /\ pc = "idle"
    /\ self = "a"
    /\ lr = Lr(1, 10) /\ max_iter = 0 /\ eps = Eps6
    /\ x = Scalar(0) /\ x0 = Scalar(0)
    /\ history = <<>>
    /\ converged = FALSE
    /\ i = 0
    /\ out = <<>>
    /\ ret = <<>>
    /\ nGrad = 0 /\ evals = 0
    /\ sawSmall = FALSE
    /\ kept = <<>>

(***************************************************************************)
(* GradientDescent.__init__                                                *)
(***************************************************************************)
ConstructFailsEither(f, g) == f = None \/ g = None

ConstructFails(f, g) == f = None /\ g = None

Construct(k, f, g) ==
    /\ pc # "loop"
    /\ obj[k].state # "ready"
    /\ obj' = [obj EXCEPT ![k] =
                 IF ConstructFails(f, g)
                 THEN [state |-> "ValueError", argf |-> f, argg |-> g,
                       func |-> "unset", grad_func |-> "unset"]
                 ELSE [state |-> "ready", argf |-> f, argg |-> g,
                       func |-> f, grad_func |-> g]]
    /\ UNCHANGED <<callVars, evals>>

(***************************************************************************)
(* GradientDescent._get_gradient                                           *)
(***************************************************************************)
FdEps == Scale \div 100000               \* eps = 1e-5 of the central difference

get_gradient(o, a) ==
    IF o.grad_func # None
    THEN CallGradFunc(o.grad_func, a)
    ELSE LET d == Sub(CallFunc(o.func, AddConst(a, FdEps)),
                      CallFunc(o.func, AddConst(a, -FdEps)))
         IN  [arr |-> d.arr, v |-> [k \in 1..Len(d.v) |-> FixDiv(d.v[k], 2 * FdEps)]]

\* how many times _get_gradient evaluates a callable
GradientEvals(o) == IF o.grad_func # None THEN 1 ELSE 2

(***************************************************************************)
(* GradientDescent.optimize                                                *)
(***************************************************************************)
FreshHistoryShared(old) == old

\* history = []
FreshHistory(old) == <<>>

\* the initial x: start, or a standard-normal draw of the shape asked for
InitialPoint(start, shape, draw) ==
    IF start = NoStart
    THEN IF shape # NoShape THEN Array(draw) ELSE Scalar(draw[1])
    ELSE start

DrawsFor(start, shape, D) ==
    IF start # NoStart THEN {<<>>}
    ELSE [1..(IF shape = NoShape THEN 1 ELSE shape) -> D]

OptimizeStart(k, start, l, m, e, shape, draw) ==
    /\ pc \in {"idle", "returned"}
    /\ obj[k].state = "ready"
    /\ self' = k
    /\ lr' = l /\ max_iter' = m /\ eps' = e
    /\ history' = FreshHistory(history)
    /\ x' = InitialPoint(start, shape, draw)
    /\ x0' = InitialPoint(start, shape, draw)
    /\ converged' = FALSE
    /\ i' = 0
    /\ out' = <<>>
    /\ nGrad' = 0 /\ evals' = 0 /\ sawSmall' = FALSE
    /\ ret' = <<>>
    /\ pc' = "loop"
    /\ UNCHANGED <<obj, kept>>

DeltaNoLr(l, grad) == grad

\* delta = lr * grad
Delta(l, grad) ==
    [arr |-> grad.arr,
     v   |-> [k \in 1..Len(grad.v) |-> RoundDiv(l.num * grad.v[k], l.den)]]

\* if not isinstance(v, np.ndarray): v = np.array([v])
Promote(a) == IF a.arr THEN a ELSE Array(a.v)

\* the sum of the squares of the first k elements of s
RECURSIVE SumSqTo(_, _)
SumSqTo(s, k) == IF k = 0 THEN 0 ELSE s[k] * s[k] + SumSqTo(s, k - 1)

SumSq(s) == SumSqTo(s, Len(s))

\* np.linalg.norm(delta) < eps: the square root of the sum of the squares is
\* below e exactly when every element is and the sum is below e * e
StepConvergedLe(delta, e) ==
    /\ \A k \in 1..Len(delta.v) : Abs(delta.v[k]) <= e
    /\ SumSq(delta.v) <= e * e

StepConverged(delta, e) ==
    /\ \A k \in 1..Len(delta.v) : Abs(delta.v[k]) < e
    /\ SumSq(delta.v) < e * e

OnBreakPromoted(a) == IF a.arr THEN a ELSE [arr |-> TRUE, v |-> a.v]

\* the x the loop is left with when it breaks: nothing assigns to it
OnBreak(a) == a

UpdatePlus(a, delta) ==
    [arr |-> TRUE, v |-> [k \in 1..Len(delta.v) |-> At(a.v, k) + delta.v[k]]]

\* x is promoted, then x = x - delta
Update(a, delta) == Sub(Promote(a), delta)

AppendHistoryAliased(h, xn, grad) ==
    [k \in 1..Len(h) |-> [x |-> xn, grad |-> h[k].grad]] \o <<[x |-> xn, grad |-> grad]>>

\* hist = {"x": x, "grad": grad}; history.append(hist)
AppendHistory(h, xn, grad) == Append(h, [x |-> xn, grad |-> grad])

ConvergedLineNext(n) == [text |-> "Converged in", n |-> n + 1]

\* print(f"Converged in {i} iterations. Breaking...")
ConvergedLine(n) == [text |-> "Converged in", n |-> n]
\* print(f"Not converged after {max_iter} iterations.")
NotConvergedLine(n) == [text |-> "Not converged after", n |-> n]

LoopBoundPlusOne(m) == m + 1

\* for i in range(max_iter): the loop runs while i is below this
LoopBound(m) == m

\* one pass through the body of the for loop
Iterate ==
    /\ pc = "loop" /\ ~converged /\ i < LoopBound(max_iter)
    /\ LET grad  == get_gradient(obj[self], x)
           delta == Promote(Delta(lr, grad))
       IN  /\ sawSmall' = (sawSmall \/ \A k \in 1..Len(delta.v) :
                                          Abs(delta.v[k]) < eps /\ SumSq(delta.v) < eps * eps)
           /\ IF StepConverged(delta, eps)
              THEN /\ converged' = TRUE
                   /\ out' = Append(out, ConvergedLine(i))
                   /\ x' = OnBreak(x)
                   /\ UNCHANGED <<history, i>>
              ELSE /\ x' = Update(x, delta)
                   /\ history' = AppendHistory(history, Update(x, delta), grad)
                   /\ i' = i + 1
                   /\ UNCHANGED <<converged, out>>
    /\ nGrad' = nGrad + 1
    /\ evals' = evals + GradientEvals(obj[self])
    /\ UNCHANGED <<obj, pc, self, lr, max_iter, eps, ret, x0, kept>>

ExitLinesFlipped(c, m) == IF c THEN <<[text |-> "Not converged after", n |-> m]>> ELSE <<>>

\* if not converged: print(...)
ExitLines(c, m) == IF ~c THEN <<NotConvergedLine(m)>> ELSE <<>>

CallRecord == [inst |-> self, func |-> obj[self].func, grad_func |-> obj[self].grad_func,
               x0 |-> x0, lr |-> lr, max_iter |-> max_iter, eps |-> eps,
               ret |-> <<x, history>>]

\* the loop has ended (break, or range(max_iter) is used up): the last lines
\* of optimize; the caller keeps the returned pair for later or does not
Return(keep) ==
    /\ pc = "loop" /\ (converged \/ i >= LoopBound(max_iter))
    /\ out' = out \o ExitLines(converged, max_iter)
    /\ ret' = <<x, history>>
    /\ kept' = IF keep THEN <<CallRecord>> ELSE kept
    /\ pc' = "returned"
    /\ UNCHANGED <<obj, self, lr, max_iter, eps, x, history, converged, i,
                   x0, nGrad, evals, sawSmall>>

(***************************************************************************)
(* Spec: one optimizer and one call of optimize, over the full range of    *)
(* arguments with short iteration budgets.                                 *)
(***************************************************************************)
Next ==
    \/ \E f \in Funcs \cup {None}, g \in GradFuncs \cup {None} : Construct("a", f, g)
    \/ /\ pc = "idle"
       /\ \E start \in Starts, l \in LRs, m \in MaxIters, e \in Epss, shape \in Shapes :
            \E draw \in DrawsFor(start, shape, Draws) :
               OptimizeStart("a", start, l, m, e, shape, draw)
    \/ Iterate
    \/ Return(FALSE)

Spec == Init /\ [][Next]_vars

(***************************************************************************)
(* SpecLong: one optimizer and one call with the budget max_iter = 200,    *)
(* scalar starts.                                                          *)
(***************************************************************************)
NextLong ==
    \/ \E f \in Funcs \cup {None}, g \in GradFuncs \cup {None} : Construct("a", f, g)
    \/ /\ pc = "idle"
       /\ \E start \in LongStarts, l \in LongLRs :
            OptimizeStart("a", start, l, 200, Eps6, NoShape, <<>>)
    \/ Iterate
    \/ Return(FALSE)

SpecLong == Init /\ [][NextLong]_vars

(***************************************************************************)
(* SpecCalls: two optimizers and a caller that keeps results to compare.   *)
(***************************************************************************)
NextCalls ==
    \/ \E k \in Insts, f \in {"sq", None}, g \in {"d_sq", None} : Construct(k, f, g)
    \/ \E k \in Insts, start \in FewStarts, l \in FewLRs, m \in FewMaxIters,
          shape \in {NoShape, 1} :
         \E draw \in DrawsFor(start, shape, FewDraws) :
            OptimizeStart(k, start, l, m, Eps6, shape, draw)
    \/ Iterate
    \/ \E keep \in BOOLEAN : Return(keep)

SpecCalls == Init /\ [][NextCalls]_vars

(***************************************************************************)
(* Properties.                                                             *)
(***************************************************************************)
\* the Euclidean norm of the step d is strictly below e
NormBelow(d, e) == ~(\E k \in 1..Len(d) : Abs(d[k]) >= e) /\ SumSq(d) < e * e

\* the step lr * gradient(x) the iteration about to run computes
StepOf(a) == Delta(lr, get_gradient(obj[self], a)).v

\* this step is one pass through the loop body
IterationRuns == pc = "loop" /\ nGrad' = nGrad + 1

\* C1: an iteration whose step norm is strictly below eps stops the loop at
\* once, leaves x exactly as it was and appends nothing; an iteration whose
\* step norm is at least eps (equal included) applies x - delta and appends
\* exactly one entry; once the loop has stopped no further iteration runs.
C1_StopOrUpdate ==
    /\ [][IterationRuns =>
            LET d == StepOf(x)
            IN  IF NormBelow(d, eps)
                THEN /\ x' = x
                     /\ history' = history
                     /\ converged'
                ELSE /\ x'.v = [k \in 1..Len(d) |-> x.v[k] - d[k]]
                     /\ Len(history') = Len(history) + 1
                     /\ ~converged']_vars
    /\ [][(pc = "loop" /\ converged) => nGrad' = nGrad]_vars

\* C1 witness: the first step had norm exactly eps and was applied, the
\* second had a norm below eps and stopped the loop without touching x.
C1_Witness ==
    /\ pc = "loop" /\ converged
    /\ Len(history) = 1
    /\ Abs(Delta(lr, history[1].grad).v[1]) = eps
    /\ x = history[1].x
    /\ x # Promote(x0)

\* C2: construction fails with ValueError exactly when func and grad_func are
\* both None; otherwise the object exists with both references stored as
\* given; no construction evaluates a callable.
C2_Construction ==
    /\ [](\A k \in Insts :
            /\ obj[k].state = "ValueError" <=>
                 (obj[k].state # "unborn" /\ obj[k].argf = None /\ obj[k].argg = None)
            /\ obj[k].state = "ready" <=>
                 (obj[k].state # "unborn" /\ (obj[k].argf # None \/ obj[k].argg # None))
            /\ obj[k].state = "ready" =>
                 obj[k].func = obj[k].argf /\ obj[k].grad_func = obj[k].argg)
    /\ [][obj' # obj => evals' = evals]_vars

\* C2 witness: one construction has failed, another with only a gradient
\* function has succeeded.
C2_Witness ==
    /\ obj["a"].state = "ValueError"
    /\ obj["b"].state = "ready" /\ obj["b"].func = None /\ obj["b"].grad_func = "d_sq"

\* C3 as stated: a call with positive max_iter that ends without converging
\* returns a history shorter than max_iter.
C3_Original ==
    (pc = "returned" /\ max_iter > 0 /\ ~converged) => Len(ret[2]) < max_iter

\* C3 amended: a call with positive max_iter that ends without converging
\* returns normally with a history of exactly max_iter entries; it is the
\* converged call whose history is shorter than max_iter.
C3_Amended ==
    /\ (pc = "loop" /\ max_iter > 0 /\ ~converged /\ i >= max_iter) => ENABLED Return(FALSE)
    /\ (pc = "returned" /\ max_iter > 0) =>
          /\ ~converged => Len(ret[2]) = max_iter
          /\ converged => Len(ret[2]) < max_iter

\* C3 witness: a call with max_iter = 3 has returned without converging.
C3_Witness ==
    pc = "returned" /\ max_iter = 3 /\ ~converged /\ Len(ret[2]) = 3

\* C4: when no iteration's step norm fell below eps, the returned history has
\* exactly max_iter entries and the one line printed is the "Not converged
\* after max_iter iterations" line.
C4_NoSmallStep ==
    (pc = "returned" /\ ~sawSmall) =>
        /\ Len(ret[2]) = max_iter
        /\ out = <<[text |-> "Not converged after", n |-> max_iter]>>

\* C4 witness: max_iter = 1, a start far from the optimum and a tiny lr.
C4_Witness ==
    /\ pc = "returned" /\ ~sawSmall
    /\ max_iter = 1 /\ x0 = Scalar(10 * Scale) /\ lr = Lr(1, 1000000)
    /\ Len(ret[2]) = 1

\* the call of the quadratic sanity check: gradient 2(x - 3), start = 0,
\* lr = 0.1, max_iter = 200, eps = 1e-6
QuadraticCall ==
    /\ obj[self].state = "ready" /\ obj[self].grad_func = "d_quad3"
    /\ x0 = Scalar(0) /\ lr = Lr(1, 10) /\ max_iter = 200 /\ eps = Eps6

\* C5: the quadratic sanity check ends converged, with the returned point
\* within 1e-3 of 3 and fewer than 200 history entries.
C5_Quadratic ==
    (pc = "returned" /\ QuadraticCall) =>
        /\ converged
        /\ out = <<[text |-> "Converged in", n |-> Len(ret[2])]>>
        /\ Abs(ret[1].v[1] - 3 * Scale) <= Scale \div 1000
        /\ Len(ret[2]) < 200

\* C5 witness: the quadratic sanity check has returned, after 60 updates.
C5_Witness ==
    pc = "returned" /\ QuadraticCall /\ Len(ret[2]) = 60

\* the point before the k-th update
PointBefore(k) == IF k = 1 THEN x0 ELSE history[k - 1].x

\* C6: with gradient 2x (objective x^2), a nonzero scalar start and
\* 0 < lr <= 0.5, every recorded point is no larger in magnitude than the
\* point before it (the start, for the first).
C6_Monotone ==
    (/\ pc # "idle"
     /\ obj[self].grad_func = "d_sq" /\ obj[self].func \in {"sq", None}
     /\ ~x0.arr /\ x0.v[1] # 0
     /\ lr.num > 0 /\ 2 * lr.num <= lr.den) =>
        \A k \in 1..Len(history) :
            Abs(history[k].x.v[1]) <= Abs(PointBefore(k).v[1])

\* C6 witness: such a run from start = 10 with lr = 0.1 has returned after
\* more than 50 updates, the last strictly smaller than the one before.
C6_Witness ==
    /\ pc = "returned"
    /\ obj[self].grad_func = "d_sq" /\ obj[self].func \in {"sq", None}
    /\ x0 = Scalar(10 * Scale) /\ lr = Lr(1, 10)
    /\ Len(history) > 50
    /\ Abs(history[Len(history)].x.v[1]) < Abs(history[Len(history) - 1].x.v[1])

\* the current call has the functions and the arguments of the kept call c
SameCall(c) ==
    /\ obj[self].func = c.func /\ obj[self].grad_func = c.grad_func
    /\ x0 = c.x0 /\ lr = c.lr /\ max_iter = c.max_iter /\ eps = c.eps

\* C7: a call with the same function references and the same arguments
\* (same start, or same draw) as a call made earlier, on the same optimizer
\* or on another, returns the same point and the same history; the history of
\* a call never holds more entries than the call has run iterations.
C7_NoStateBetweenCalls ==
    /\ (pc = "returned" /\ kept # <<>> /\ SameCall(kept[1])) => ret = kept[1].ret
    /\ pc # "idle" => Len(history) <= nGrad

\* C7 witness: a call on one optimizer has returned after two updates with
\* the functions and arguments of a call kept from the other optimizer.
C7_Witness ==
    /\ pc = "returned" /\ kept # <<>>
    /\ SameCall(kept[1]) /\ kept[1].inst # self
    /\ Len(ret[2]) = 2

\* the last history entry is the update of the point before it
LastEntryIsUpdate ==
    LET n == Len(history)
        g == get_gradient(obj[self], PointBefore(n))
        d == Delta(lr, g).v
    IN  /\ history[n].grad = g
        /\ history[n].x.v = [k \in 1..Len(d) |-> PointBefore(n).v[k] - d[k]]
        /\ x = history[n].x

\* C8: the history holds one entry per update applied so far, in order; an
\* entry, once appended, is never changed or removed; entry k holds the
\* gradient at the point before the k-th update and that point minus
\* lr * gradient; the returned point is the x of the last entry, or the
\* initial point when the history is empty.
C8_History ==
    /\ [](pc # "idle" =>
            /\ Len(history) = i
            /\ Len(history) > 0 => LastEntryIsUpdate
            /\ pc = "returned" =>
                 /\ ret[2] = history
                 /\ ret[1] = IF Len(history) > 0 THEN history[Len(history)].x ELSE x0)
    /\ [][pc = "loop" =>
            \/ history' = history
            \/ /\ Len(history') = Len(history) + 1
               /\ SubSeq(history', 1, Len(history)) = history]_vars

\* C8 witness: a call from a drawn point of two elements has returned after
\* three updates.
C8_Witness ==
    /\ pc = "returned" /\ Len(ret[2]) = 3
    /\ x0.arr /\ Len(x0.v) = 2
    /\ ret[2][1].x # ret[2][3].x

\* C9 as stated: x is an array before every convergence test, so a call from
\* a scalar start with max_iter >= 1 returns an array however the loop ended.
C9_Original ==
    (pc = "returned" /\ ~x0.arr /\ max_iter >= 1) => ret[1].arr

\* C9 amended: x is promoted only after the convergence test of an iteration
\* has failed; a call from a scalar start holds, and returns, an array exactly
\* when at least one update was applied, and the untouched scalar start
\* otherwise (convergence in the first iteration included).
C9_Amended ==
    /\ (pc # "idle" /\ ~x0.arr) =>
          /\ x.arr <=> Len(history) > 0
          /\ Len(history) = 0 => x = x0
          /\ \A k \in 1..Len(history) : history[k].x.arr
    /\ (pc = "returned" /\ ~x0.arr) => (ret[1].arr <=> Len(ret[2]) > 0)

\* C9 witness: a call from a scalar start with max_iter >= 1 converged in its
\* first iteration and returned the scalar.
C9_Witness ==
    /\ pc = "returned" /\ ~x0.arr /\ max_iter >= 1
    /\ converged /\ Len(ret[2]) = 0
    /\ ~ret[1].arr /\ ret[1] = x0

\* where a call is: in the loop with an iteration to run, or at one of the
\* two ends of the loop
Phase ==
    IF pc = "idle" THEN "none"
    ELSE IF pc = "loop" /\ ~converged /\ i < max_iter THEN "Iterating"
    ELSE IF converged THEN "Converged" ELSE "Exhausted"

\* C10: a call makes at most max_iter gradient acquisitions, one per step it
\* takes while Iterating; from Iterating it moves only to Converged or
\* Exhausted, where the only step left is the return, so Iterating is never
\* re-entered; Converged is entered only by an iteration whose step norm is
\* below eps, Exhausted only after max_iter updates; the call prints exactly
\* one line: "Converged in N" with N the number of updates applied, or "Not
\* converged after max_iter".
C10_Outcome ==
    /\ [](pc # "idle" =>
            /\ nGrad <= max_iter
            /\ Phase = "Iterating" => out = <<>>
            /\ (pc = "returned" /\ converged) =>
                  out = <<[text |-> "Converged in", n |-> Len(ret[2])]>>
            /\ Phase = "Exhausted" => Len(history) = max_iter
            /\ (pc = "returned" /\ ~converged) =>
                  out = <<[text |-> "Not converged after", n |-> max_iter]>>)
    /\ [][/\ (Phase \in {"Converged", "Exhausted"} /\ pc = "loop") =>
                (Phase' = Phase /\ nGrad' = nGrad /\ pc' = "returned")
          /\ (Phase = "Iterating") =>
                (nGrad' = nGrad + 1 /\ Phase' \in {"Iterating", "Converged", "Exhausted"})
          /\ (Phase = "Iterating" /\ Phase' = "Converged") =>
                NormBelow(StepOf(x), eps)]_vars

\* C10 witness: a call has returned converged after one update and two
\* gradient acquisitions.
C10_Witness ==
    /\ pc = "returned" /\ converged
    /\ nGrad = 2 /\ Len(ret[2]) = 1
    /\ out = <<[text |-> "Converged in", n |-> 1]>>

=============================================================================
